---- MODULE Spec2Model ----
(***************************************************************************)
(* Refactoring-aware SZZ (RASZZ, src/ra_szz.py): the refactoring cache     *)
(* self.refactorings, _extract_refactorings, get_impacted_files and the    *)
(* recursive _blame.  The two collaborators are nondeterministic: the base *)
(* class blame (HistoryEngine) attributes each requested line to any       *)
(* commit and file, or leaves it out, or raises; RefactoringMiner          *)
(* (RefactoringDetector) may succeed with any refactoring list, print JSON *)
(* of another shape, print no JSON at all, exit non-zero or time out.      *)
(*                                                                         *)
(* One engine instance runs one call at a time (the code is synchronous).  *)
(* The recursion of _blame is an explicit stack of frames; a frame's pc    *)
(* is the place of that activation in the body of _blame.  An exception    *)
(* unwinds the whole stack: _blame has no try/except.                      *)
(***************************************************************************)
EXTENDS Integers, Sequences, FiniteSets, TLC

\* ------------------------------------------------------------- bounds ----
\* line numbers 1..MaxLine
MaxLine == 2
\* frames the stack may hold: one more than the code can ever need, so that
\* the depth bound is a property of the cycle guard and not of this cap
MaxDepth == 4

\* get_jira_issues: issues a project may hold, and page sizes 1..MaxBunch
MaxIssues == 4
MaxBunch == 3

\* _commits_and_issues: wall-clock times 1..MaxClock, commits per repository
MaxClock == 3
MaxCommits == 2

Revisions == {"R1", "R2"}
Files == {"f.java", "g.java"}
Lines == 1..MaxLine

\* ignore_revs_list = None (the default of the parameter); no revision is "None"
None == <<"None">>

\* ---------------------------------------------------- detector output ----
Region(p, a, b) == [filePath |-> p, startLine |-> a, endLine |-> b]

Refactoring(t, locs) == [type |-> t, rightSideLocations |-> locs]

\* the refactoring lists RefactoringMiner may report for a commit
RefLists ==
    { << >>,
      << Refactoring("Rename Method", << Region("f.java", 1, 2) >>) >>,
      << Refactoring("Extract Method", << Region("f.java", 2, 2), Region("g.java", 1, 1) >>),
         Refactoring("Move Method", << Region("f.java", 2, 2) >>) >> }

\* what one run of the RefactoringMiner command can end in
\*   ok        : JSON with commits[0].refactorings               (lines 35-36)
\*   corrupted : JSON without that shape                         (lines 37-39)
\*   badjson   : output json.loads rejects: not caught           (line 34)
\*   procerror : subprocess.CalledProcessError                   (lines 41-42)
\*   timeout   : subprocess.TimeoutExpired                       (lines 43-45)
Outcomes == {"ok", "corrupted", "badjson", "procerror", "timeout"}

\* -------------------------------------------------------------- state ----
VARIABLES
    refactorings,     \* self.refactorings: dict commit -> list of refactorings
    status,           \* "idle" | "running" | "returned" | "raised"
    error,            \* the exception that ended the last call, or "none"
    op,               \* the running (or last) top-level call and its arguments
    pc,               \* place of a non-recursive call: "extract" | "filter" | "done"
    todo,             \* commits _extract_refactorings has still to visit
    impacted_files,   \* get_impacted_files: the local impacted_files
    locations,        \* get_impacted_files: (refactoring, location) pairs still to apply
    stack,            \* activations of _blame, innermost last
    retval,           \* value the last root _blame returned
    \* history variables (not program state)
    rootFrame,        \* << root activation as it was at its return >>, else << >>
    ran,              \* revisions RefactoringMiner has been run on by this instance
    superCalls,       \* base-class blame invocations of the current root call
    recursiveCalls,   \* recursive _blame calls of the current root call
    dropped,          \* line numbers of requests the cycle guard skipped
    faithful,         \* every base blame so far answered one attribution per line
    activations,      \* << depth, rev, file_path >> of the _blame activations of the root call
    \* threads sharing one instance (each inside _extract_refactorings)
    threads,          \* thread -> its place in the loop of line 28
    \* get_jira_issues (src/issues_extractor.py)
    jira_pc,          \* "idle" | "loop" | "returned" | "raised"
    project_issues,   \* how many issues the tracker holds for project_name
    bunch,            \* the page size asked for
    all_issues,       \* issues collected so far (their positions in the tracker)
    extracted_issues, \* startAt of the next search
    sleep_time,       \* seconds of the last back-off, 30 before the first
    slept,            \* history: the time.sleep calls of this call, in order
    \* _commits_and_issues (src/issues_extractor.py)
    link_pc,          \* "idle" | "loop" | "returned"
    issues,           \* dict issue_id -> creation_time
    issues_dates,     \* candidate list of (issue_id, date), newest first
    commits_out,      \* the list `commits`: the Commit objects built so far
    visited           \* how many commits of java_commits the loop has taken up

vars == << refactorings, status, error, op, pc, todo, impacted_files, locations,
           stack, retval, rootFrame, ran, superCalls, recursiveCalls,
           dropped, faithful, activations, threads,
           jira_pc, project_issues, bunch, all_issues, extracted_issues, sleep_time, slept,
           link_pc, issues, issues_dates, commits_out, visited >>

ghost == << rootFrame, ran, superCalls, recursiveCalls, dropped, faithful, activations >>

\* state of the other entry points, which a call on this thread leaves alone
jiraVars == << jira_pc, project_issues, bunch, all_issues, extracted_issues,
              sleep_time, slept >>

linkVars == << link_pc, issues, issues_dates, commits_out, visited >>

outside == << threads, jiraVars, linkVars >>

\* threads of a caller that shares one RASZZ instance (the class has no lock)
Threads == {"t1", "t2"}

\* a thread that is not inside _extract_refactorings
Idle == [pc |-> "idle", commits |-> {}, commit |-> "none"]

\* get_jira_issues: sleep_time before the first failure (line 60) and the
\* back-off at which the error is raised instead of slept (line 70)
InitialSleep == 30
SleepLimit == 480

\* ------------------------------------------------------------ helpers ----
Range(s) == { s[i] : i \in DOMAIN s }

\* dict assignment d[k] = v
Put(d, k, v) == [x \in (DOMAIN d) \cup {k} |-> IF x = k THEN v ELSE d[x]]

\* all the orders a for-loop may visit the elements of a set in
Orders(S) == { s \in [1..Cardinality(S) -> S] : Range(s) = S }

Init ==
    /\ refactorings = << >>
    /\ status = "idle"
    /\ error = "none"
    /\ op = [name |-> "none"]
    /\ pc = "done"
    /\ todo = {}
    /\ impacted_files = << >>
    /\ locations = << >>
    /\ stack = << >>
    /\ retval = {}
    /\ rootFrame = << >>
    /\ ran = {}
    /\ superCalls = 0
    /\ recursiveCalls = 0
    /\ dropped = {}
    /\ faithful = TRUE
    /\ activations = {}
    /\ threads = [t \in Threads |-> Idle]
    /\ jira_pc = "idle"
    /\ project_issues = 0
    /\ bunch = 1
    /\ all_issues = << >>
    /\ extracted_issues = 0
    /\ sleep_time = InitialSleep
    /\ slept = << >>
    /\ link_pc = "idle"
    /\ issues = << >>
    /\ issues_dates = << >>
    /\ commits_out = << >>
    /\ visited = 0

\* an exception leaves the call: every activation is unwound
Raise(e) ==
    /\ status' = "raised"
    /\ error' = e
    /\ pc' = "done"
    /\ todo' = {}
    /\ stack' = << >>

\* history of a fresh top-level call
FreshCall ==
    /\ superCalls' = 0
    /\ recursiveCalls' = 0
    /\ dropped' = {}
    /\ faithful' = TRUE

\* ------------------------------------------- _extract_refactorings -------
\* the loop of line 28 is running: called directly, from get_impacted_files
\* (line 52) or from the innermost _blame (line 95)
Extracting == pc = "extract" \/ (stack # << >> /\ stack[Len(stack)].pc = "extract")

\* One iteration of `for commit in commits` for a commit already in the dict.
ExtractCached ==
    /\ status = "running" /\ Extracting
    /\ \E commit \in todo :
        /\ commit \in DOMAIN refactorings
        /\ todo' = todo \ {commit}
    /\ UNCHANGED << refactorings, status, error, op, pc, impacted_files, locations,
                    stack, retval, ghost >>
    /\ UNCHANGED outside

\* self.refactorings after one run of the command on `commit`
AfterRefMiner(commit, outcome, refs) ==
    CASE outcome = "ok"        -> Put(refactorings, commit, refs)
      [] outcome = "corrupted" -> Put(refactorings, commit, << >>)
      [] outcome = "timeout"   -> Put(refactorings, commit, << >>)
      [] outcome = "procerror" -> refactorings
      [] OTHER                 -> refactorings

\* One iteration for a commit not in the dict: the command runs.
RunRefMinerOn(commit) ==
    /\ status = "running" /\ Extracting
    /\ commit \in todo
    /\ \E outcome \in Outcomes, refs \in RefLists :
        /\ commit \notin DOMAIN refactorings
        /\ outcome # "ok" => refs = << >>
        /\ refactorings' = AfterRefMiner(commit, outcome, refs)
        /\ ran' = ran \cup {commit}
        /\ IF outcome = "badjson"
             THEN Raise("JSONDecodeError")
             ELSE /\ todo' = todo \ {commit}
                  /\ UNCHANGED << status, error, pc, stack >>
    /\ UNCHANGED << op, impacted_files, locations, retval, rootFrame,
                    superCalls, recursiveCalls, dropped, faithful, activations >>
    /\ UNCHANGED outside

RunRefMiner == \E commit \in Revisions : RunRefMinerOn(commit)

\* ensure_loaded(revisions): a direct call of _extract_refactorings
CallExtractRefactorings ==
    /\ status # "running"
    /\ \E commits \in SUBSET Revisions :
        /\ op' = [name |-> "_extract_refactorings", commits |-> commits]
        /\ todo' = commits
    /\ status' = "running"
    /\ error' = "none"
    /\ pc' = "extract"
    /\ impacted_files' = << >>
    /\ locations' = << >>
    /\ retval' = {}
    /\ rootFrame' = << >>
    /\ FreshCall
    /\ activations' = {}
    /\ UNCHANGED << refactorings, stack, ran >>
    /\ UNCHANGED outside

\* the loop is over: the function returns None
ReturnExtractRefactorings ==
    /\ status = "running" /\ op.name = "_extract_refactorings"
    /\ pc = "extract" /\ todo = {}
    /\ status' = "returned"
    /\ pc' = "done"
    /\ UNCHANGED << refactorings, error, op, todo, impacted_files, locations,
                    stack, retval, ghost >>
    /\ UNCHANGED outside

\* ------------------------------------------------ get_impacted_files -----
\* modified_lines of an ImpactedFile as the base routine reports them
LineLists ==
    { s \in UNION { [1..n -> Lines] : n \in 1..MaxLine } :
        \A i \in 1..(Len(s) - 1) : s[i] < s[i + 1] }

ImpactedFile(p, ls) == [file_path |-> p, modified_lines |-> ls]

\* results of super().get_impacted_files: no file, one file, or two files
BaseImpacted ==
    { << >> }
    \cup { << ImpactedFile(p, ls) >> : p \in Files, ls \in LineLists }
    \cup { << ImpactedFile("f.java", l1), ImpactedFile("g.java", l2) >> :
             l1 \in LineLists, l2 \in { << 1 >>, [i \in 1..MaxLine |-> i] } }

\* every rightSideLocation of every refactoring, in the order of the two loops
RECURSIVE AllLocations(_)
AllLocations(refs) ==
    IF refs = << >> THEN << >>
    ELSE [ i \in DOMAIN refs[1].rightSideLocations |->
             [type |-> refs[1].type, location |-> refs[1].rightSideLocations[i]] ]
         \o AllLocations(Tail(refs))

\* lines 60-65 with the start of the region taken as exclusive
RemoveLinesStartExclusive(f, location) ==
    LET lines_to_remove ==
            { l \in Range(f.modified_lines) :
                /\ location.filePath = f.file_path
                /\ l > location.startLine
                /\ l <= location.endLine }
    IN  [f EXCEPT !.modified_lines =
            SelectSeq(f.modified_lines, LAMBDA line : line \notin lines_to_remove)]

\* lines 60-65: f.modified_lines after one location has been applied to f
RemoveLines(f, location) ==
    LET lines_to_remove ==
            { l \in Range(f.modified_lines) :
                /\ location.filePath = f.file_path
                /\ l >= location.startLine
                /\ l <= location.endLine }
    IN  [f EXCEPT !.modified_lines =
            SelectSeq(f.modified_lines, LAMBDA line : line \notin lines_to_remove)]

\* line 67 without the filter
AllFiles(fs) == fs

\* line 67
NonEmptyFiles(fs) == SelectSeq(fs, LAMBDA f : Len(f.modified_lines) > 0)

CallGetImpactedFiles ==
    /\ status # "running"
    /\ \E fix_commit_hash \in Revisions, base \in BaseImpacted :
        /\ op' = [name |-> "get_impacted_files", fix_commit_hash |-> fix_commit_hash,
                  base |-> base]
        /\ impacted_files' = base
        /\ todo' = {fix_commit_hash}
    /\ status' = "running"
    /\ error' = "none"
    /\ pc' = "extract"
    /\ locations' = << >>
    /\ retval' = {}
    /\ rootFrame' = << >>
    /\ FreshCall
    /\ activations' = {}
    /\ UNCHANGED << refactorings, stack, ran >>
    /\ UNCHANGED outside

\* line 54: self.refactorings[fix_commit_hash] is looked up (KeyError when absent)
StartFilter ==
    /\ status = "running" /\ op.name = "get_impacted_files"
    /\ pc = "extract" /\ todo = {}
    /\ IF op.fix_commit_hash \in DOMAIN refactorings
         THEN /\ locations' = AllLocations(refactorings[op.fix_commit_hash])
              /\ pc' = "filter"
              /\ UNCHANGED << status, error, todo, stack >>
         ELSE /\ Raise("KeyError")
              /\ UNCHANGED locations
    /\ UNCHANGED << refactorings, op, impacted_files, retval, ghost >>
    /\ UNCHANGED outside

\* lines 55-65: one location applied to every impacted file
FilterLocation ==
    /\ status = "running" /\ op.name = "get_impacted_files"
    /\ pc = "filter" /\ locations # << >>
    /\ impacted_files' = [ i \in DOMAIN impacted_files |->
                             RemoveLines(impacted_files[i], locations[1].location) ]
    /\ locations' = Tail(locations)
    /\ UNCHANGED << refactorings, status, error, op, pc, todo, stack, retval, ghost >>
    /\ UNCHANGED outside

\* lines 67-68
ReturnImpactedFiles ==
    /\ status = "running" /\ op.name = "get_impacted_files"
    /\ pc = "filter" /\ locations = << >>
    /\ impacted_files' = NonEmptyFiles(impacted_files)
    /\ status' = "returned"
    /\ pc' = "done"
    /\ UNCHANGED << refactorings, error, op, todo, locations, stack, retval, ghost >>
    /\ UNCHANGED outside

\* ------------------------------------------------------------ _blame -----
\* a BlameData of the base class: the commit, the file and the line it names
\* (the line's content is carried along and never read by _blame)
BlameData(c, p, l) == [commit |-> c, file_path |-> p, line_num |-> l]

Attributions == { BlameData(c, p, l) : c \in Revisions, p \in Files, l \in Lines }

\* what one base-class blame may answer when asked for the lines ls: for each
\* of them at most one attribution, to any commit (an ignored one and the blamed
\* one included) and any file; a line may be missing from the answer
Answers(ls) ==
    { cs \in SUBSET { a \in Attributions : a.line_num \in Range(ls) } :
        \A c \in cs, d \in cs : c.line_num = d.line_num => c = d }

\* arguments of a root call
RootRevisions == {"R2"}
RootFiles == {"f.java"}
RootLines == { << 1 >>, [i \in 1..MaxLine |-> i] }
RootIgnoreLists == { None, << >>, << "R1" >> }

ReblameCandidate(rev, p, ls) == [rev |-> rev, file_path |-> p, modified_lines |-> ls]

Frame(rev, p, ls, ignore) ==
    [ rev |-> rev, file_path |-> p, modified_lines |-> ls, ignore_revs_list |-> ignore,
      pc |-> "super",
      candidate_blame_data |-> {},
      to_reblame |-> << >>,          \* the dict, in insertion order
      next |-> 1,                    \* position of the loop of line 119
      result_blame_data |-> {},
      \* history of this activation
      accepted |-> {},               \* result_blame_data when the loop of line 100 ended
      calls |-> << >>,               \* arguments of the recursive calls it made
      subresults |-> {} ]            \* union of what those calls returned

Top == stack[Len(stack)]

SetTop(f) == [stack EXCEPT ![Len(stack)] = f]

\* line 108 with the end of the region taken as exclusive
CoversEndExclusive(location, blame) ==
    /\ blame.file_path = location.filePath
    /\ blame.line_num >= location.startLine
    /\ blame.line_num < location.endLine

\* line 108 without the comparison of the paths
CoversAnyFile(location, blame) ==
    /\ blame.line_num >= location.startLine
    /\ blame.line_num <= location.endLine

\* line 108
Covers(location, blame) ==
    /\ blame.file_path = location.filePath
    /\ blame.line_num >= location.startLine
    /\ blame.line_num <= location.endLine

\* lines 110-113 with the else branch assigning a fresh candidate again
AddToReblameOverwrite(to_reblame, blame) ==
    IF \E i \in DOMAIN to_reblame :
          to_reblame[i].rev = blame.commit /\ to_reblame[i].file_path = blame.file_path
    THEN [ i \in DOMAIN to_reblame |->
             IF to_reblame[i].rev = blame.commit /\ to_reblame[i].file_path = blame.file_path
             THEN [to_reblame[i] EXCEPT !.modified_lines = << blame.line_num >>]
             ELSE to_reblame[i] ]
    ELSE Append(to_reblame, ReblameCandidate(blame.commit, blame.file_path, << blame.line_num >>))

\* lines 110-113 without the grouping: a fresh candidate for every line
AddToReblamePerLine(to_reblame, blame) ==
    Append(to_reblame, ReblameCandidate(blame.commit, blame.file_path, << blame.line_num >>))

\* lines 110-113: the key is commit "@" file_path
AddToReblame(to_reblame, blame) ==
    IF \E i \in DOMAIN to_reblame :
          to_reblame[i].rev = blame.commit /\ to_reblame[i].file_path = blame.file_path
    THEN [ i \in DOMAIN to_reblame |->
             IF to_reblame[i].rev = blame.commit /\ to_reblame[i].file_path = blame.file_path
             THEN [to_reblame[i] EXCEPT !.modified_lines = Append(@, blame.line_num)]
             ELSE to_reblame[i] ]
    ELSE Append(to_reblame, ReblameCandidate(blame.commit, blame.file_path, << blame.line_num >>))

\* lines 102-114 for one blame: every covering location adds the line again
RECURSIVE ScanLocations(_, _, _)
ScanLocations(locs, blame, to_reblame) ==
    IF locs = << >> THEN to_reblame
    ELSE ScanLocations(Tail(locs), blame,
                       IF Covers(locs[1].location, blame)
                       THEN AddToReblame(to_reblame, blame)
                       ELSE to_reblame)

\* line 116
CanAdd(locs, blame) == \A i \in DOMAIN locs : ~Covers(locs[i].location, blame)

\* lines 100-117 over the candidates in the order the set yields them
RECURSIVE PartitionBlames(_, _, _)
PartitionBlames(order, to_reblame, result) ==
    IF order = << >> THEN [to_reblame |-> to_reblame, result |-> result]
    ELSE LET blame == order[1]
             locs == AllLocations(refactorings[blame.commit])
         IN  PartitionBlames(Tail(order),
                             ScanLocations(locs, blame, to_reblame),
                             IF CanAdd(locs, blame) THEN result \cup {blame} ELSE result)

\* line 121 without the guard
InIgnoreListNever(rev, ignore_revs_list) == FALSE

\* line 121 looking at the last ignored revision only
InIgnoreListLast(rev, ignore_revs_list) ==
    ignore_revs_list # << >> /\ rev = ignore_revs_list[Len(ignore_revs_list)]

\* line 121
InIgnoreList(rev, ignore_revs_list) == rev \in Range(ignore_revs_list)

\* line 124 putting the revision in front
NewIgnoreListInFront(ignore_revs_list, rev) == << rev >> \o ignore_revs_list

\* lines 123-124
NewIgnoreList(ignore_revs_list, rev) == Append(ignore_revs_list, rev)

\* line 123 without .copy(): line 124 appends to the caller's own list
IgnoreListAliased(ignore_revs_list, rev) == Append(ignore_revs_list, rev)

\* lines 123-124: the activation's own ignore_revs_list afterwards; copy()
\* made a new list and the append of line 124 went to that one
IgnoreListAfterCopy(ignore_revs_list, rev) == ignore_revs_list

\* line 137 as an assignment
UpdateResultAssign(result, new_blame_results) == new_blame_results

\* line 137
UpdateResult(result, new_blame_results) == result \cup new_blame_results

CallBlame ==
    /\ status # "running"
    /\ \E rev \in RootRevisions, p \in RootFiles, ls \in RootLines, ignore \in RootIgnoreLists :
        /\ op' = [name |-> "_blame", rev |-> rev, file_path |-> p,
                  modified_lines |-> ls, ignore_revs_list |-> ignore]
        /\ stack' = << Frame(rev, p, ls, ignore) >>
        /\ activations' = { << 1, rev, p >> }
    /\ status' = "running"
    /\ error' = "none"
    /\ pc' = "done"
    /\ todo' = {}
    /\ retval' = {}
    /\ rootFrame' = << >>
    /\ impacted_files' = << >>
    /\ locations' = << >>
    /\ FreshCall
    /\ UNCHANGED << refactorings, ran >>
    /\ UNCHANGED outside

\* the answer has one attribution for each requested line, with that line number
OnePerLine(cs, ls) ==
    /\ { c.line_num : c \in cs } = Range(ls)
    /\ Cardinality(cs) = Cardinality(Range(ls))

\* lines 82-95: super()._blame answers; its commits go to _extract_refactorings
SuperBlame ==
    /\ status = "running" /\ stack # << >> /\ Top.pc = "super"
    /\ \E cs \in Answers(Top.modified_lines) :
        /\ stack' = SetTop([Top EXCEPT !.candidate_blame_data = cs, !.pc = "extract"])
        /\ todo' = { c.commit : c \in cs }
        /\ faithful' = (faithful /\ OnePerLine(cs, Top.modified_lines))
    /\ superCalls' = superCalls + 1
    /\ UNCHANGED << refactorings, status, error, op, pc, impacted_files, locations,
                    retval, rootFrame, ran, recursiveCalls, dropped, activations >>
    /\ UNCHANGED outside

\* super()._blame raises: nothing in _blame catches it
SuperBlameFails ==
    /\ status = "running" /\ stack # << >> /\ Top.pc = "super"
    /\ Raise("BlameError")
    /\ superCalls' = superCalls + 1
    /\ UNCHANGED << refactorings, op, impacted_files, locations, retval, rootFrame,
                    ran, recursiveCalls, dropped, faithful, activations >>
    /\ UNCHANGED outside

\* lines 97-117: KeyError at line 102 when a candidate's commit has no entry
Partition ==
    /\ status = "running" /\ stack # << >> /\ Top.pc = "extract" /\ todo = {}
    /\ IF \A c \in Top.candidate_blame_data : c.commit \in DOMAIN refactorings
         THEN /\ \E order \in Orders(Top.candidate_blame_data) :
                   LET parts == PartitionBlames(order, << >>, {})
                   IN  stack' = SetTop([Top EXCEPT !.to_reblame = parts.to_reblame,
                                                   !.result_blame_data = parts.result,
                                                   !.accepted = parts.result,
                                                   !.pc = "reblame"])
              /\ UNCHANGED << status, error, pc, todo >>
         ELSE Raise("KeyError")
    /\ UNCHANGED << refactorings, op, impacted_files, locations, retval, ghost >>
    /\ UNCHANGED outside

AtRequest == status = "running" /\ stack # << >> /\ Top.pc = "reblame"
                /\ Top.next <= Len(Top.to_reblame)

\* line 121 with ignore_revs_list = None: `in` raises TypeError
IgnoreListMissing ==
    /\ AtRequest /\ Top.ignore_revs_list = None
    /\ Raise("TypeError")
    /\ UNCHANGED << refactorings, op, impacted_files, locations, retval, ghost >>
    /\ UNCHANGED outside

\* lines 121-122: the cycle guard skips the request
SkipIgnored ==
    /\ AtRequest /\ Top.ignore_revs_list # None
    /\ LET r == Top.to_reblame[Top.next]
       IN  /\ InIgnoreList(r.rev, Top.ignore_revs_list)
           /\ dropped' = dropped \cup Range(r.modified_lines)
    /\ stack' = SetTop([Top EXCEPT !.next = @ + 1])
    /\ UNCHANGED << refactorings, status, error, op, pc, todo, impacted_files, locations,
                    retval, rootFrame, ran, superCalls, recursiveCalls, faithful,
                    activations >>
    /\ UNCHANGED outside

\* lines 123-136: the recursive call
Recurse ==
    /\ AtRequest /\ Top.ignore_revs_list # None
    /\ Len(stack) < MaxDepth
    /\ LET r == Top.to_reblame[Top.next]
           new_ignore_revs_list == NewIgnoreList(Top.ignore_revs_list, r.rev)
           callee == Frame(r.rev, r.file_path, r.modified_lines, new_ignore_revs_list)
       IN  /\ ~InIgnoreList(r.rev, Top.ignore_revs_list)
           /\ stack' = Append(SetTop([Top EXCEPT !.pc = "call",
                                                 !.calls = Append(@, callee),
                                                 !.ignore_revs_list =
                                                     IgnoreListAfterCopy(@, r.rev)]),
                              callee)
           /\ activations' = activations \cup { << Len(stack) + 1, r.rev, r.file_path >> }
    /\ recursiveCalls' = recursiveCalls + 1
    /\ UNCHANGED << refactorings, status, error, op, pc, todo, impacted_files, locations,
                    retval, rootFrame, ran, superCalls, dropped, faithful >>
    /\ UNCHANGED outside

\* line 139, and line 137 in the caller
ReturnBlame ==
    /\ status = "running" /\ stack # << >> /\ Top.pc = "reblame"
    /\ Top.next > Len(Top.to_reblame)
    /\ IF Len(stack) = 1
         THEN /\ retval' = Top.result_blame_data
              /\ rootFrame' = << Top >>
              /\ status' = "returned"
              /\ stack' = << >>
         ELSE LET caller == stack[Len(stack) - 1]
              IN  /\ stack' = [ SubSeq(stack, 1, Len(stack) - 1) EXCEPT ![Len(stack) - 1] =
                                  [caller EXCEPT
                                     !.result_blame_data = UpdateResult(@, Top.result_blame_data),
                                     !.subresults = @ \cup Top.result_blame_data,
                                     !.next = @ + 1,
                                     !.pc = "reblame"] ]
                  /\ UNCHANGED << retval, rootFrame, status >>
    /\ UNCHANGED << refactorings, error, op, pc, todo, impacted_files, locations,
                    ran, superCalls, recursiveCalls, dropped, faithful, activations >>
    /\ UNCHANGED outside

Next ==
    \/ CallExtractRefactorings
    \/ ExtractCached
    \/ RunRefMiner
    \/ ReturnExtractRefactorings
    \/ CallGetImpactedFiles
    \/ StartFilter
    \/ FilterLocation
    \/ ReturnImpactedFiles
    \/ CallBlame
    \/ SuperBlame
    \/ SuperBlameFails
    \/ Partition
    \/ IgnoreListMissing
    \/ SkipIgnored
    \/ Recurse
    \/ ReturnBlame

Spec == Init /\ [][Next]_vars

\* the steps of a call under way (everything but the arrival of a new call)
Step ==
    \/ ExtractCached
    \/ RunRefMiner
    \/ ReturnExtractRefactorings
    \/ StartFilter
    \/ FilterLocation
    \/ ReturnImpactedFiles
    \/ SuperBlame
    \/ SuperBlameFails
    \/ Partition
    \/ IgnoreListMissing
    \/ SkipIgnored
    \/ Recurse
    \/ ReturnBlame

\* The code is synchronous: a call under way takes its next step.  The base
\* blame is taken to answer or raise, and the detector command runs under
\* timeout=300 (line 33), so no step waits forever.
FairSpec == Spec /\ WF_vars(Step)

\* --------------------------- _extract_refactorings on several threads ----
\* Two threads of one caller run _extract_refactorings on the same instance.
\* The method takes no lock: the test of line 29 and the store of lines 36, 39
\* and 45 are separate steps, with the RefactoringMiner process (line 33,
\* up to 300 seconds) running in between.
raszz == << status, error, op, pc, todo, impacted_files, locations, stack, retval,
            rootFrame, ran, superCalls, recursiveCalls, dropped, faithful, activations,
            jiraVars, linkVars >>

\* the whole state of a RASZZ instance and its callers
engine == << refactorings, threads, status, error, op, pc, todo, impacted_files,
             locations, stack, retval, rootFrame, ran, superCalls, recursiveCalls,
             dropped, faithful, activations >>

\* a thread enters _extract_refactorings(commits)
ThreadCall ==
    /\ \E t \in Threads, commits \in SUBSET Revisions :
          /\ threads[t].pc = "idle"
          /\ threads' = [threads EXCEPT ![t] = [pc |-> "loop", commits |-> commits,
                                                commit |-> "none"]]
    /\ UNCHANGED << refactorings, raszz >>

\* lines 28-29 for a commit found in the dict: nothing to do
ThreadCached ==
    /\ \E t \in Threads :
          /\ threads[t].pc = "loop"
          /\ \E commit \in threads[t].commits :
                /\ commit \in DOMAIN refactorings
                /\ threads' = [threads EXCEPT ![t].commits = @ \ {commit}]
    /\ UNCHANGED << refactorings, raszz >>

\* lines 28-33 for a commit not found in the dict: the command is started
ThreadStartRefMiner ==
    /\ \E t \in Threads :
          /\ threads[t].pc = "loop"
          /\ \E commit \in threads[t].commits :
                /\ commit \notin DOMAIN refactorings
                /\ threads' = [threads EXCEPT ![t].pc = "refminer", ![t].commit = commit]
    /\ UNCHANGED << refactorings, raszz >>

\* lines 33-45: the command ends and its outcome is stored (or not)
ThreadEndRefMiner ==
    /\ \E t \in Threads, outcome \in Outcomes, refs \in RefLists :
          /\ threads[t].pc = "refminer"
          /\ outcome # "ok" => refs = << >>
          /\ refactorings' = AfterRefMiner(threads[t].commit, outcome, refs)
          /\ threads' = [threads EXCEPT ![t] =
                            IF outcome = "badjson"
                            THEN Idle
                            ELSE [pc |-> "loop", commits |-> @.commits \ {@.commit},
                                  commit |-> "none"]]
    /\ UNCHANGED raszz

\* the loop is over
ThreadReturn ==
    /\ \E t \in Threads :
          /\ threads[t].pc = "loop" /\ threads[t].commits = {}
          /\ threads' = [threads EXCEPT ![t] = Idle]
    /\ UNCHANGED << refactorings, raszz >>

ThreadedNext ==
    \/ ThreadCall
    \/ ThreadCached
    \/ ThreadStartRefMiner
    \/ ThreadEndRefMiner
    \/ ThreadReturn

ThreadedSpec == Init /\ [][ThreadedNext]_vars

\* ---------------------------------------------------- get_jira_issues ----
\* The tracker holds the issues 1..project_issues of the project, in a fixed
\* order, and a search that succeeds answers the page asked for (line 63).
\* The connection of line 57 has been made.  Any search may fail.
Min(a, b) == IF a < b THEN a ELSE b

\* search_issues(..., maxResults=bunch, startAt=startAt) when it succeeds
Page(startAt, maxResults) ==
    [ i \in 1..(Min(startAt + maxResults, project_issues) - Min(startAt, project_issues))
        |-> startAt + i ]

\* line 69
NextSleep(t) == t * 2

\* line 70 with > for >=
GiveUpLate(t) == t > SleepLimit

\* line 70
GiveUp(t) == t >= SleepLimit

\* lines 57-60
CallGetJiraIssues ==
    /\ jira_pc # "loop"
    /\ \E n \in 0..MaxIssues, b \in 1..MaxBunch :
          /\ project_issues' = n
          /\ bunch' = b
    /\ jira_pc' = "loop"
    /\ all_issues' = << >>
    /\ extracted_issues' = 0
    /\ sleep_time' = InitialSleep
    /\ slept' = << >>
    /\ UNCHANGED << engine, linkVars >>

\* lines 63-67 (and 73 after the break): the search answers a page
SearchIssues ==
    /\ jira_pc = "loop"
    /\ LET found == Page(extracted_issues, bunch)
       IN  /\ all_issues' = all_issues \o found
           /\ extracted_issues' = extracted_issues + bunch
           /\ jira_pc' = IF Len(found) < bunch THEN "returned" ELSE "loop"
    /\ UNCHANGED << project_issues, bunch, sleep_time, slept, engine, linkVars >>

\* lines 68-72: the search raises
SearchFails ==
    /\ jira_pc = "loop"
    /\ sleep_time' = NextSleep(sleep_time)
    /\ IF GiveUp(sleep_time')
         THEN jira_pc' = "raised" /\ UNCHANGED slept
         ELSE jira_pc' = "loop" /\ slept' = Append(slept, sleep_time')
    /\ UNCHANGED << project_issues, bunch, all_issues, extracted_issues, engine, linkVars >>

JiraNext ==
    \/ CallGetJiraIssues
    \/ SearchIssues
    \/ SearchFails

JiraSpec == Init /\ [][JiraNext]_vars

\* The loop is synchronous: a search under way answers or raises (the client
\* has its own timeouts) and a sleep ends.
JiraFairSpec == JiraSpec /\ WF_vars(SearchIssues \/ SearchFails)

\* ------------------------------------------------ _commits_and_issues ----
\* An aware datetime: the wall-clock reading and the UTC offset it was taken
\* at.  Aware datetimes compare by the instant they denote (line 181);
\* replace(tzinfo=None) keeps the reading and drops the offset (lines 214-216).
DateTime(clock, utcoffset) == [clock |-> clock, utcoffset |-> utcoffset]

Instant(d) == d.clock - d.utcoffset

ReplaceTzinfoNone(d) == d.clock

IssueIds == {"1", "2"}

\* creation times as the tracker reports them (one server, one offset) and
\* committed_datetime of a commit (the committer's offset)
IssueDates == { DateTime(c, 0) : c \in 1..MaxClock }
CommitDates == { DateTime(c, o) : c \in 1..MaxClock, o \in {0, 1} }

\* the digit words of a cleaned commit message, in order (lines 189-193)
Texts == { << >>, << "1" >>, << "2" >>, << "2", "1" >> }

\* line 181: sorted(..., key=creation_time, reverse=True); issues created at
\* the same instant keep the order of the dict
SortedNewestFirst(d) ==
    { s \in Orders({ << x, d[x] >> : x \in DOMAIN d }) :
        \A i \in 1..(Len(s) - 1) : Instant(s[i][2]) >= Instant(s[i + 1][2]) }

\* lines 192-196
RECURSIVE get_bug_num_from_comit_text(_, _)
get_bug_num_from_comit_text(words, issues_ids) ==
    IF words = << >> THEN "0"
    ELSE IF words[1] \in issues_ids THEN words[1]
    ELSE get_bug_num_from_comit_text(Tail(words), issues_ids)

\* lines 211-217: the value of ind after the loop (counted from 0, as in the
\* code): the first entry older than the commit, or the last entry of the
\* list when the loop ran to its end, or 0 when the list is empty
IndAfterLoop(dates, committed_datetime) ==
    LET older == { i \in 1..Len(dates) :
                     ReplaceTzinfoNone(committed_datetime) > ReplaceTzinfoNone(dates[i][2]) }
    IN  IF dates = << >> THEN 0
        ELSE IF older # {} THEN (CHOOSE i \in older : \A j \in older : i <= j) - 1
        ELSE Len(dates) - 1

\* line 218: issues_dates[ind:]
SliceFrom(dates, ind) == SubSeq(dates, ind + 1, Len(dates))

Commit(bug_id, committed_datetime, is_java_commit) ==
    [bug_id |-> bug_id, committed_datetime |-> committed_datetime,
     is_java_commit |-> is_java_commit]

\* lines 180-181 and 198-199
CallCommitsAndIssues ==
    /\ link_pc # "loop"
    /\ \E ids \in SUBSET IssueIds :
          \E d \in [ids -> IssueDates] :
             /\ issues' = d
             /\ issues_dates' \in SortedNewestFirst(d)
    /\ link_pc' = "loop"
    /\ commits_out' = << >>
    /\ visited' = 0
    /\ UNCHANGED << engine, jiraVars >>

\* lines 200-206: a commit without a java file is kept with bug id "0"
NonJavaCommit ==
    /\ link_pc = "loop" /\ visited < MaxCommits
    /\ \E committed_datetime \in CommitDates :
          commits_out' = Append(commits_out, Commit("0", committed_datetime, FALSE))
    /\ visited' = visited + 1
    /\ UNCHANGED << link_pc, issues, issues_dates, engine, jiraVars >>

\* lines 207-210: the message cannot be cleaned; the commit is passed over
MessageFails ==
    /\ link_pc = "loop" /\ visited < MaxCommits
    /\ visited' = visited + 1
    /\ UNCHANGED << link_pc, issues, issues_dates, commits_out, engine, jiraVars >>

\* lines 211-221: the candidates are pruned by the commit's date and the
\* commit is linked to the first of them its message names
LinkCommit ==
    /\ link_pc = "loop" /\ visited < MaxCommits
    /\ \E committed_datetime \in CommitDates, words \in Texts :
          LET ind == IndAfterLoop(issues_dates, committed_datetime)
              pruned == SliceFrom(issues_dates, ind)
              bug_id == get_bug_num_from_comit_text(words, { e[1] : e \in Range(pruned) })
          IN  /\ issues_dates' = pruned
              /\ commits_out' = Append(commits_out, Commit(bug_id, committed_datetime, TRUE))
    /\ visited' = visited + 1
    /\ UNCHANGED << link_pc, issues, engine, jiraVars >>

\* line 222: java_commits is exhausted
ReturnCommits ==
    /\ link_pc = "loop"
    /\ link_pc' = "returned"
    /\ UNCHANGED << issues, issues_dates, commits_out, visited, engine, jiraVars >>

LinkNext ==
    \/ CallCommitsAndIssues
    \/ NonJavaCommit
    \/ MessageFails
    \/ LinkCommit
    \/ ReturnCommits

LinkSpec == Init /\ [][LinkNext]_vars

\* ========================================================= properties ====
\* (commit, path, line) is recorded as refactored: some region of some
\* refactoring in self.refactorings[commit] has that path and spans the line.
\* Read off the cache directly, not through the loops of _blame.
Refactored(commit, path, line) ==
    /\ commit \in DOMAIN refactorings
    /\ \E i \in DOMAIN refactorings[commit] :
         \E j \in DOMAIN refactorings[commit][i].rightSideLocations :
            LET region == refactorings[commit][i].rightSideLocations[j]
            IN  /\ region.filePath = path
                /\ region.startLine <= line
                /\ line <= region.endLine

RefactoredBlame(a) == Refactored(a.commit, a.file_path, a.line_num)

BlameReturned == status = "returned" /\ op.name = "_blame"

\* C1 - No refactoring-only attribution survives: every attribution in the
\* value a _blame returns, and in the result set of every activation under way
\* (accepted there or taken over from a recursive call), names a commit whose
\* refactorings are recorded, and no recorded region of that commit has the
\* attribution's path and spans its line.
C1_NoRefactoringOnlyAttribution ==
    /\ \A a \in retval :
          a.commit \in DOMAIN refactorings /\ ~RefactoredBlame(a)
    /\ \A i \in DOMAIN stack : \A a \in stack[i].result_blame_data :
          a.commit \in DOMAIN refactorings /\ ~RefactoredBlame(a)

\* a root call returned attributions after recursing, one of them to a commit
\* that has refactorings (elsewhere), and another line was re-blamed
C1_Witness ==
    /\ BlameReturned
    /\ recursiveCalls > 0
    /\ \E a \in retval : refactorings[a.commit] # << >>
    /\ \E a \in rootFrame[1].candidate_blame_data : RefactoredBlame(a)

NumRevisions == Cardinality(Revisions)

\* C2 - Termination: the recursion of _blame is never deeper than the number
\* of distinct revisions (the root activation plus at most one per revision),
\* and every call of _blame under way eventually ends, whatever the base blame
\* answers.
C2_Termination ==
    /\ [](Len(stack) <= NumRevisions + 1)
    /\ [](status = "running" => <>(status # "running"))

\* the recursion is as deep as it can get, and the base blame has re-reported
\* a revision that is ignored on this path
C2_Witness ==
    /\ Len(stack) = NumRevisions + 1
    /\ Top.pc = "reblame"
    /\ Top.next <= Len(Top.to_reblame)
    /\ Top.to_reblame[Top.next].rev \in Range(Top.ignore_revs_list)

\* C3 - Conservation of lines: when every base blame of a root call answered
\* one attribution for each requested line, the line numbers of the returned
\* attributions together with the lines of the requests the cycle guard
\* skipped are the modified_lines of the root call.
C3_ConservationOfLines ==
    (BlameReturned /\ faithful) =>
        { a.line_num : a \in retval } \cup dropped = Range(op.modified_lines)

\* a faithful call that returned one line and lost another to the cycle guard,
\* after a request that grouped two lines
C3_Witness ==
    /\ BlameReturned /\ faithful
    /\ dropped # {} /\ retval # {}
    /\ \E i \in DOMAIN rootFrame[1].to_reblame :
          Len(rootFrame[1].to_reblame[i].modified_lines) > 1

\* C4 - A detector failure never aborts the call: no _blame and no
\* get_impacted_files ends in an exception that comes from the detector's
\* failure (KeyError: the failed commit has no entry at line 54 or 102;
\* JSONDecodeError: the output was not JSON).
C4_DetectorFailureNeverAborts ==
    ~( /\ status = "raised"
       /\ op.name \in {"_blame", "get_impacted_files"}
       /\ error \in {"KeyError", "JSONDecodeError"} )

\* C5 - Postcondition of ensure_loaded: when _extract_refactorings has
\* returned, every commit of its argument has an entry in self.refactorings,
\* a list the detector reported or the empty list.
C5_EnsureLoadedPostcondition ==
    (status = "returned" /\ op.name = "_extract_refactorings") =>
        \A commit \in op.commits :
           /\ commit \in DOMAIN refactorings
           /\ refactorings[commit] \in RefLists

\* C6 - Idempotence of the cache: the detector never runs on a revision it
\* has been run on before by this instance, whatever that run ended in.
C6_DetectorOncePerRevision ==
    [][ \A commit \in Revisions : RunRefMinerOn(commit) => commit \notin ran ]_vars

\* lines of f that no recorded region of the fix commit spans
Residual(f) ==
    SelectSeq(f.modified_lines,
              LAMBDA l : ~Refactored(op.fix_commit_hash, f.file_path, l))

\* C7 - ImpactedFile filtering: get_impacted_files returns the files of the
\* base result, each with its lines that no region of a refactoring of the fix
\* commit spans (same path, startLine <= l <= endLine), in their order, and
\* without the files left with no line.
C7_ImpactedFileFiltering ==
    (status = "returned" /\ op.name = "get_impacted_files") =>
        /\ Len(impacted_files) = Cardinality(Range(impacted_files))
        /\ Range(impacted_files) =
              { [file_path |-> f.file_path, modified_lines |-> Residual(f)] :
                  f \in { g \in Range(op.base) : Residual(g) # << >> } }

\* one file lost a line and kept another, another file is gone, and a file met
\* a region of another path
C7_Witness ==
    /\ status = "returned" /\ op.name = "get_impacted_files"
    /\ Len(impacted_files) = 1
    /\ Len(op.base) = 2
    /\ \E f \in Range(op.base) :
          /\ f.file_path = impacted_files[1].file_path
          /\ Len(impacted_files[1].modified_lines) < Len(f.modified_lines)

\* the frames whose loop over the candidates (lines 100-117) is over
Partitioned(F) == F.pc \in {"reblame", "call"}

CoveredCandidates(F) == { c \in F.candidate_blame_data : RefactoredBlame(c) }

\* C8 - Scenario A: when no candidate of a root _blame lies in a recorded
\* region of its own commit, the call makes no reblame request and no recursive
\* call, the base blame has been invoked once, and the call returns exactly the
\* candidates.
C8_ScenarioA ==
    /\ (stack # << >> /\ Partitioned(stack[1]) /\ CoveredCandidates(stack[1]) = {}) =>
          /\ Len(stack) = 1
          /\ stack[1].to_reblame = << >>
          /\ stack[1].result_blame_data = stack[1].candidate_blame_data
          /\ superCalls = 1 /\ recursiveCalls = 0
    /\ (BlameReturned /\ CoveredCandidates(rootFrame[1]) = {}) =>
          /\ retval = rootFrame[1].candidate_blame_data
          /\ superCalls = 1 /\ recursiveCalls = 0

\* a root call returned two candidates as they were, one to a commit that has
\* refactorings elsewhere
C8_Witness ==
    /\ BlameReturned
    /\ CoveredCandidates(rootFrame[1]) = {}
    /\ Cardinality(retval) = 2
    /\ \E a \in retval : refactorings[a.commit] # << >>

\* requests of F the loop of line 119 has taken up so far
TakenUp(F) == IF F.pc = "call" THEN F.next ELSE F.next - 1

\* those of them the cycle guard lets through
LetThrough(F) ==
    SelectSeq(SubSeq(F.to_reblame, 1, TakenUp(F)),
              LAMBDA r : r.rev \notin Range(F.ignore_revs_list))

\* one request per (commit, path) with a covered candidate, holding the lines
\* of the covered candidates of that commit and path
RequestsRight(F) ==
    /\ \A i \in DOMAIN F.to_reblame, j \in DOMAIN F.to_reblame :
          (F.to_reblame[i].rev = F.to_reblame[j].rev
             /\ F.to_reblame[i].file_path = F.to_reblame[j].file_path) => i = j
    /\ { << r.rev, r.file_path >> : r \in Range(F.to_reblame) }
          = { << c.commit, c.file_path >> : c \in CoveredCandidates(F) }
    /\ \A r \in Range(F.to_reblame) :
          Range(r.modified_lines)
            = { c.line_num : c \in { d \in CoveredCandidates(F) :
                                       d.commit = r.rev /\ d.file_path = r.file_path } }

\* one recursive call for each request let through, in order, with the
\* request's revision, path and lines and the ignore list plus that revision
CallsRight(F) ==
    /\ Len(F.calls) = Len(LetThrough(F))
    /\ \A i \in DOMAIN F.calls :
          LET r == LetThrough(F)[i]
          IN  /\ F.calls[i].rev = r.rev
              /\ F.calls[i].file_path = r.file_path
              /\ F.calls[i].modified_lines = r.modified_lines
              /\ F.calls[i].ignore_revs_list = F.ignore_revs_list \o << r.rev >>

\* the result is what was accepted here plus what the recursive calls returned
ResultRight(F) ==
    /\ F.accepted = F.candidate_blame_data \ CoveredCandidates(F)
    /\ F.result_blame_data = F.accepted \cup F.subresults
    /\ F.result_blame_data \cap CoveredCandidates(F) = {}

\* C9 - Re-blame step: in every activation of _blame past its partition, the
\* requests group the covered candidates by (commit, path); for each request
\* taken up whose revision is not in ignore_revs_list exactly one recursive call
\* was made, with the request's revision, path and lines and with
\* ignore_revs_list plus that revision; the result is the accepted candidates
\* united with the results of those calls and holds no covered candidate; the
\* frame above a calling frame is the call just made; and a root call returns
\* that result once every request has been taken up.
C9_ReblameStep ==
    /\ \A i \in DOMAIN stack :
          Partitioned(stack[i]) =>
             RequestsRight(stack[i]) /\ CallsRight(stack[i]) /\ ResultRight(stack[i])
    /\ \A i \in DOMAIN stack :
          i < Len(stack) =>
             /\ stack[i].pc = "call"
             /\ stack[i].calls # << >>
             /\ LET c == stack[i].calls[Len(stack[i].calls)]
                IN  /\ stack[i + 1].rev = c.rev
                    /\ stack[i + 1].file_path = c.file_path
                    /\ stack[i + 1].modified_lines = c.modified_lines
                    /\ stack[i + 1].ignore_revs_list = c.ignore_revs_list
    /\ BlameReturned =>
          /\ RequestsRight(rootFrame[1]) /\ CallsRight(rootFrame[1]) /\ ResultRight(rootFrame[1])
          /\ TakenUp(rootFrame[1]) = Len(rootFrame[1].to_reblame)
          /\ retval = rootFrame[1].result_blame_data

\* a root call returned after two recursive calls of its own, with candidates
\* it accepted and attributions the calls found
C9_Witness ==
    /\ BlameReturned
    /\ Len(rootFrame[1].calls) = 2
    /\ rootFrame[1].subresults # {}
    /\ \E r \in Range(rootFrame[1].to_reblame) : Len(r.modified_lines) > 1 \/ rootFrame[1].accepted # {}

\* the loop of line 119 stands at a request whose revision is in ignore_revs_list
AtIgnoredRequest ==
    /\ status = "running" /\ stack # << >>
    /\ Top.pc = "reblame" /\ Top.next <= Len(Top.to_reblame)
    /\ Top.ignore_revs_list # None
    /\ Top.to_reblame[Top.next].rev \in Range(Top.ignore_revs_list)

\* C10 - Cycle guard: a request whose revision is in ignore_revs_list is
\* passed over: the step that takes it up makes no recursive call and no base
\* blame, raises nothing, leaves the result and the other requests as they are,
\* and the loop goes on with the next request.
C10_CycleGuard ==
    [][ AtIgnoredRequest =>
          /\ status' = "running" /\ error' = error
          /\ superCalls' = superCalls /\ recursiveCalls' = recursiveCalls
          /\ Len(stack') = Len(stack)
          /\ \A i \in 1..(Len(stack) - 1) : stack'[i] = stack[i]
          /\ stack'[Len(stack)] = [Top EXCEPT !.next = @ + 1] ]_vars

\* an activation passed over a request and then called for a later one
C10_Witness ==
    \E i \in DOMAIN stack :
       /\ stack[i].pc = "call"
       /\ stack[i].ignore_revs_list # None
       /\ \E a \in 1..stack[i].next :
             /\ a < stack[i].next
             /\ stack[i].to_reblame[a].rev \in Range(stack[i].ignore_revs_list)
\* threads whose RefactoringMiner command on `commit` is running
InFlight(commit) ==
    { t \in Threads : threads[t].pc = "refminer" /\ threads[t].commit = commit }

\* C11 - Access to the cache is serialized per revision: of the threads that
\* run _extract_refactorings on one instance, at most one has a RefactoringMiner
\* command for a given revision in flight; a thread that needs a revision
\* another thread is fetching waits for the entry and does not start the
\* command again.
C11_SerializedPerRevision ==
    \A commit \in Revisions : Cardinality(InFlight(commit)) <= 1

\* the ignore_revs_list activation i was called with: the argument of the root
\* call, or the list its caller built for it
Given(i) ==
    IF i = 1 THEN op.ignore_revs_list
    ELSE stack[i - 1].calls[Len(stack[i - 1].calls)].ignore_revs_list

\* every recursive call of F got the list F was given plus its own revision
OwnCopies(F, given) ==
    \A k \in DOMAIN F.calls :
       F.calls[k].ignore_revs_list = given \o << F.calls[k].rev >>

\* C12 - No aliasing of the ignore list: the ignore_revs_list of every
\* activation of _blame stays the list it was called with, up to and including
\* its return; and the list handed to each recursive call is that list with the
\* request's own revision appended, so it holds no revision of a sibling
\* request.
C12_NoAliasing ==
    /\ \A i \in DOMAIN stack :
          /\ stack[i].ignore_revs_list = Given(i)
          /\ OwnCopies(stack[i], Given(i))
    /\ BlameReturned =>
          /\ rootFrame[1].ignore_revs_list = op.ignore_revs_list
          /\ OwnCopies(rootFrame[1], op.ignore_revs_list)

\* a root call returned after recursing for two sibling requests of one
\* revision (two files): the second was not held back by the first
C12_Witness ==
    /\ BlameReturned
    /\ Len(rootFrame[1].calls) = 2
    /\ rootFrame[1].calls[1].rev = rootFrame[1].calls[2].rev

NoDuplicates(s) == \A i \in DOMAIN s, j \in DOMAIN s : s[i] = s[j] => i = j

\* C13 - In every activation of a root _blame called with an empty
\* ignore_revs_list, no revision is in ignore_revs_list twice, and in every
\* recursive activation the revision being blamed is the last element of its
\* ignore_revs_list.
C13_IgnoreListPath ==
    (status = "running" /\ op.name = "_blame" /\ op.ignore_revs_list = << >>) =>
        \A i \in DOMAIN stack :
           /\ NoDuplicates(stack[i].ignore_revs_list)
           /\ i > 1 =>
                 /\ stack[i].ignore_revs_list # << >>
                 /\ stack[i].ignore_revs_list[Len(stack[i].ignore_revs_list)] = stack[i].rev

\* the deepest activation of such a call stands at a request for a revision
\* its path ignores already, with two revisions ignored
C13_Witness ==
    /\ status = "running" /\ op.name = "_blame" /\ op.ignore_revs_list = << >>
    /\ AtIgnoredRequest
    /\ Len(Top.ignore_revs_list) = 2

\* C14 - Batching bound (as claimed): within one root call of _blame no two
\* activations at the same depth have the same revision and file path, also
\* when they descend from different sibling requests: the activations of the
\* call tree are as many as their distinct (depth, rev, file_path).
C14_BatchingPerDepth ==
    op.name = "_blame" => Cardinality(activations) = recursiveCalls + 1

\* C14 (amended) - Batching bound per activation: the recursive calls one
\* activation of _blame makes have pairwise different (rev, file_path), each
\* made once with all the lines of that pair, and every activation invokes the
\* base blame at most once; activations with different callers may share
\* depth, revision and file path.
C14_BatchingPerActivation ==
    /\ \A i \in DOMAIN stack :
          \A a \in DOMAIN stack[i].calls, b \in DOMAIN stack[i].calls :
             (stack[i].calls[a].rev = stack[i].calls[b].rev
                /\ stack[i].calls[a].file_path = stack[i].calls[b].file_path) => a = b
    /\ op.name = "_blame" => superCalls <= recursiveCalls + 1

\* the root activation has come back from a call that carried two different
\* lines of one (rev, file_path), and goes on
C14_Witness ==
    /\ op.name = "_blame" /\ stack # << >> /\ stack[1].pc = "reblame"
    /\ \E k \in DOMAIN stack[1].calls :
          Cardinality(Range(stack[1].calls[k].modified_lines)) > 1
    /\ superCalls = recursiveCalls + 1 /\ recursiveCalls > 1

Filtering == status = "running" /\ op.name = "get_impacted_files" /\ pc = "filter"

FilesNonEmpty == \A i \in DOMAIN impacted_files : impacted_files[i].modified_lines # << >>

\* every reblame request of every activation has at least one line
RequestsNonEmpty ==
    \A i \in DOMAIN stack : \A r \in Range(stack[i].to_reblame) : r.modified_lines # << >>

ImpactedFilesReturned == status = "returned" /\ op.name = "get_impacted_files"

\* C15 - Non-emptiness (as claimed): every reblame request has a line; every
\* file get_impacted_files returns has a line; and a file emptied by one
\* region is out of the collection before the next region is processed: no
\* region is taken up while a file without lines is in impacted_files.
C15_NonEmptiness ==
    /\ RequestsNonEmpty
    /\ ImpactedFilesReturned => FilesNonEmpty
    /\ (Filtering /\ locations # << >>) => FilesNonEmpty

\* C15 (amended) - every reblame request has a line and every file
\* get_impacted_files returns has a line; a file emptied by a region stays in
\* the collection, without lines, while the remaining regions are processed
\* (all files of the base result are there throughout the filtering), and is
\* removed only after the last region, before the return.
C15_NonEmptyAtReturn ==
    /\ RequestsNonEmpty
    /\ ImpactedFilesReturned => FilesNonEmpty
    /\ Filtering =>
          /\ Len(impacted_files) = Len(op.base)
          /\ \A i \in DOMAIN impacted_files :
                impacted_files[i].file_path = op.base[i].file_path

\* a file was emptied with a region still to come, and the call then returned
\* without it
C15_Witness ==
    /\ ImpactedFilesReturned
    /\ Len(impacted_files) < Len(op.base)
    /\ Len(AllLocations(refactorings[op.fix_commit_hash])) > 1
    /\ \E f \in Range(op.base) :
          /\ \A i \in DOMAIN impacted_files : impacted_files[i].file_path # f.file_path
          /\ RemoveLines(f, AllLocations(refactorings[op.fix_commit_hash])[1].location).modified_lines
                = << >>

\* C16 - Default ignore list: a root _blame called with ignore_revs_list left
\* at its default (None) goes on like one called with []: taking up a reblame
\* request raises no TypeError, and the recursive calls of the root activation
\* get a list holding just the request's revision.
C16_DefaultIgnoreList ==
    (op.name = "_blame" /\ op.ignore_revs_list = None) =>
        /\ ~(status = "raised" /\ error = "TypeError")
        /\ \A i \in DOMAIN stack : i = 1 =>
              \A k \in DOMAIN stack[i].calls :
                 stack[i].calls[k].ignore_revs_list = << stack[i].calls[k].rev >>

\* the back-offs the claim allows, in order
Backoffs == << 60, 120, 240 >>

\* what holds of get_jira_issues at every point of a call
JiraInvariant ==
    \* no page skipped or collected twice: the issues before the offset, in order
    /\ all_issues = [ i \in 1..Min(extracted_issues, project_issues) |-> i ]
    /\ extracted_issues % bunch = 0
    \* the loop goes on after full pages only and ends after a short one
    /\ jira_pc = "loop" => extracted_issues <= project_issues
    /\ jira_pc = "returned" =>
          /\ extracted_issues - bunch <= project_issues
          /\ project_issues < extracted_issues
    \* the failures of the whole call: three are slept on, the fourth is raised
    /\ Len(slept) <= 3
    /\ slept = SubSeq(Backoffs, 1, Len(slept))
    /\ jira_pc = "raised" => (Len(slept) = 3 /\ sleep_time = SleepLimit)
    /\ jira_pc # "raised" => sleep_time = InitialSleep * 2 ^ Len(slept)

\* C17 - get_jira_issues terminates and backs off: a call under way ends, by
\* returning after a page shorter than bunch or by raising the search error;
\* the back-off is never reset by a successful page, so over the whole call
\* at most three failed searches are retried, after sleeps of 60, 120 and 240
\* seconds, and the fourth failure is raised; a failed search changes neither
\* extracted_issues nor all_issues, and the issues collected are always those
\* before the offset, each once.
C17_JiraTermination ==
    /\ []JiraInvariant
    /\ [][ jira_pc = "loop" =>
             /\ sleep_time' >= sleep_time
             /\ sleep_time' # sleep_time =>
                   UNCHANGED << extracted_issues, all_issues >> ]_vars
    /\ [](jira_pc = "loop" => <>(jira_pc \in {"returned", "raised"}))

\* a call returned every issue over several pages after three failures
C17_Witness ==
    /\ jira_pc = "returned"
    /\ slept = Backoffs
    /\ Len(all_issues) > bunch
    /\ Len(all_issues) = project_issues

\* C18 - Date pruning in _commits_and_issues: every commit with a bug id
\* other than "0" is linked to an issue created strictly before the commit
\* was committed; and after the pruning for a commit every issue left in
\* issues_dates was created before that commit, also when no issue of the list
\* is older than the commit.
C18_DatePruning ==
    /\ \A k \in DOMAIN commits_out :
          commits_out[k].bug_id # "0" =>
             Instant(issues[commits_out[k].bug_id]) < Instant(commits_out[k].committed_datetime)
    /\ (commits_out # << >> /\ commits_out[Len(commits_out)].is_java_commit) =>
          \A e \in Range(issues_dates) :
             Instant(e[2]) < Instant(commits_out[Len(commits_out)].committed_datetime)
====
